---- MODULE Spec2Model ----
(***************************************************************************)
(* Model of src/src/promptings/MapCoder.py: the MapCoder prompting         *)
(* strategy (retrieval, planning + verification, ranking, code synthesis,  *)
(* bounded test-driven repair) and its response-parsing helpers.           *)
(*                                                                         *)
(* Text is modelled as a sequence of tokens.  A token is a record with a   *)
(* kind k and a value v: an opening tag, a closing tag, the CDATA markers  *)
(* that replace_tag inserts, a code fence, a prompt phrase echoed by the   *)
(* model, or a run of characters.  Characters are one-character strings.   *)
(***************************************************************************)
EXTENDS Integers, Sequences, FiniteSets, TLC

\* ------------------------------------------------------------------ bounds
MaxT == 2
MaxK == 3
MaxLen == 5

\* ------------------------------------------------------------------ tokens
Open(tag) == [k |-> "open", v |-> tag]
Close(tag) == [k |-> "close", v |-> tag]
CdataStart == [k |-> "cdata", v |-> "<![CDATA["]
CdataEnd == [k |-> "cdend", v |-> "]]>"]
Fence(hint) == [k |-> "fence", v |-> hint]
Echo(phrase) == [k |-> "echo", v |-> phrase]
Text(chars) == [k |-> "text", v |-> chars]

IsSpace(c) == c \in {" ", "\n"}

Digits == <<"0", "1", "2", "3", "4", "5", "6", "7", "8", "9">>

IsDigit(c) == \E d \in 1..10 : Digits[d] = c

DigitVal(c) == (CHOOSE d \in 1..10 : Digits[d] = c) - 1

\* The characters a token contributes when it occurs inside character data.
TokenChars(tok) ==
    CASE tok.k = "text" -> tok.v
      [] tok.k = "open" -> <<"<", tok.v, ">">>
      [] tok.k = "close" -> <<"<", "/", tok.v, ">">>
      [] OTHER -> <<tok.v>>

\* ------------------------------------------------------- python str helpers
RECURSIVE LStripChars(_)
LStripChars(cs) ==
    IF cs # <<>> /\ IsSpace(Head(cs)) THEN LStripChars(Tail(cs)) ELSE cs

RECURSIVE RStripChars(_)
RStripChars(cs) ==
    IF cs # <<>> /\ IsSpace(cs[Len(cs)])
    THEN RStripChars(SubSeq(cs, 1, Len(cs) - 1))
    ELSE cs

StripChars(cs) == RStripChars(LStripChars(cs))

\* str.strip() on a token sequence: whitespace is removed from both ends, a
\* text token that becomes empty disappears.
RECURSIVE LStrip(_)
LStrip(toks) ==
    IF toks = <<>> \/ Head(toks).k # "text" THEN toks
    ELSE LET cs == LStripChars(Head(toks).v)
         IN  IF cs = <<>> THEN LStrip(Tail(toks))
             ELSE <<Text(cs)>> \o Tail(toks)

RECURSIVE RStrip(_)
RStrip(toks) ==
    IF toks = <<>> \/ toks[Len(toks)].k # "text" THEN toks
    ELSE LET cs == RStripChars(toks[Len(toks)].v)
             init == SubSeq(toks, 1, Len(toks) - 1)
         IN  IF cs = <<>> THEN RStrip(init)
             ELSE init \o <<Text(cs)>>

Strip(toks) == RStrip(LStrip(toks))

\* text.replace(old, '') for a phrase carried by one token.
RemoveToken(toks, tok) == SelectSeq(toks, LAMBDA x : x # tok)

trim_text(text, trimmed_text) == Strip(RemoveToken(text, Echo(trimmed_text)))

Adjacent(toks, a, b) ==
    \E i \in 1..(Len(toks) - 1) : toks[i] = a /\ toks[i + 1] = b

\* The concatenation of pieces[lo..hi].
RECURSIVE Flatten(_, _, _)
Flatten(pieces, lo, hi) ==
    IF lo > hi THEN <<>>
    ELSE IF lo = hi THEN pieces[lo]
    ELSE LET mid == (lo + hi) \div 2
         IN  Flatten(pieces, lo, mid) \o Flatten(pieces, mid + 1, hi)

\* text.replace('<tag>', '<tag><![CDATA[').replace('</tag>', ']]></tag>')
WrapCdata(toks, tag) ==
    Flatten([n \in DOMAIN toks |->
                IF toks[n] = Open(tag) THEN <<toks[n], CdataStart>>
                ELSE IF toks[n] = Close(tag) THEN <<CdataEnd, toks[n]>>
                ELSE <<toks[n]>>], 1, Len(toks))

replace_tag(text, tag) ==
    IF Adjacent(text, Open(tag), CdataStart) /\ Adjacent(text, CdataEnd, Close(tag))
    THEN text
    ELSE Strip(WrapCdata(text, tag))

\* response.replace('```xml', '') then response.replace('```', ''): a fence
\* with another hint loses its backticks and keeps the hint as text.
RemoveFences(toks) ==
    SelectSeq([n \in DOMAIN toks |->
                  IF toks[n].k = "fence" /\ toks[n].v \notin {"", "xml"}
                  THEN Text(<<toks[n].v>>) ELSE toks[n]],
              LAMBDA x : x.k # "fence")

\* ------------------------------------------------- xml.etree.ElementTree
\* An element is [tag, kids, text]; text is the character data before the
\* first child, and <<>> stands for Python's None (no character data).
Frame(tag) == [tag |-> tag, kids |-> <<>>, text |-> <<>>]

ParserStart == [stack |-> <<>>, root |-> <<>>, cdata |-> FALSE, err |-> FALSE]

AddChars(st, cs) ==
    LET n == Len(st.stack)
        top == st.stack[n]
    IN  IF top.kids # <<>> THEN st
        ELSE [st EXCEPT !.stack[n].text = top.text \o cs]

Feed(st, tok) ==
    LET n == Len(st.stack)
        bad == [st EXCEPT !.err = TRUE]
    IN  IF st.err THEN st
        ELSE IF st.cdata THEN
            IF tok.k = "cdend" THEN [st EXCEPT !.cdata = FALSE]
            ELSE AddChars(st, TokenChars(tok))
        ELSE CASE tok.k = "open" ->
                    IF n = 0 /\ st.root # <<>> THEN bad
                    ELSE [st EXCEPT !.stack = Append(st.stack, Frame(tok.v))]
               [] tok.k = "close" ->
                    IF n = 0 \/ st.stack[n].tag # tok.v THEN bad
                    ELSE IF n = 1
                    THEN [st EXCEPT !.stack = <<>>, !.root = <<st.stack[1]>>]
                    ELSE [st EXCEPT
                            !.stack = [SubSeq(st.stack, 1, n - 1) EXCEPT
                                ![n - 1].kids = Append(st.stack[n - 1].kids, st.stack[n])]]
               [] tok.k = "cdata" ->
                    IF n = 0 THEN bad ELSE [st EXCEPT !.cdata = TRUE]
               [] tok.k = "cdend" -> bad
               [] tok.k = "text" ->
                    IF StripChars(tok.v) = <<>>
                    THEN (IF n = 0 THEN st ELSE AddChars(st, tok.v))
                    ELSE (IF n = 0 THEN bad ELSE AddChars(st, tok.v))
               [] OTHER -> IF n = 0 THEN bad ELSE AddChars(st, TokenChars(tok))

RECURSIVE FeedAll(_, _)
FeedAll(st, toks) ==
    IF st.err \/ toks = <<>> THEN st ELSE FeedAll(Feed(st, Head(toks)), Tail(toks))

\* ET.fromstring: the root element, or a ParseError.
fromstring(toks) ==
    LET st == FeedAll(ParserStart, toks)
    IN  IF st.err \/ st.cdata \/ st.stack # <<>> \/ st.root = <<>>
        THEN [ok |-> FALSE]
        ELSE [ok |-> TRUE, root |-> st.root[1]]

\* ---------------------------------------------------------- python values
None == [ty |-> "none"]
Str(chars) == [ty |-> "str", v |-> chars]
Dict(f) == [ty |-> "dict", v |-> f]
List(s) == [ty |-> "list", v |-> s]
Integer(n) == [ty |-> "int", v |-> n]

EmptyMap == <<>>

\* child.text
TextOf(el) == IF el.text = <<>> THEN None ELSE Str(el.text)

\* dict[key] = value
SetItem(map, key, value) == (key :> value) @@ map

\* The branch of xml_to_dict taken for a child that has children of its own.
StoreNested(result, tag, child_data) ==
    IF tag \in DOMAIN result
    THEN IF result[tag].ty = "list"
         THEN SetItem(result, tag, List(Append(result[tag].v, child_data)))
         ELSE SetItem(result, tag, List(<<result[tag], child_data>>))
    ELSE SetItem(result, tag, child_data)

\* The branch of xml_to_dict taken for a child without children.
StoreLeaf(result, tag, text) == SetItem(result, tag, text)

RECURSIVE xml_to_dict(_)
RECURSIVE XmlChildren(_, _)
XmlChildren(kids, result) ==
    IF kids = <<>> THEN result
    ELSE LET child == Head(kids)
         IN  XmlChildren(Tail(kids),
                IF child.kids # <<>>
                THEN StoreNested(result, child.tag, Dict(xml_to_dict(child)))
                ELSE StoreLeaf(result, child.tag, TextOf(child)))

xml_to_dict(element) == XmlChildren(element.kids, EmptyMap)

Newline == Text(<<"\n">>)

\* The document handed to the parser by the second attempt of parse_xml.
WrapBoth(response) == <<Open("root"), Newline>> \o response \o <<Newline, Close("root")>>

\* The document handed to the parser by the third attempt of parse_xml.
WrapOpen(response) == <<Open("root"), Newline>> \o response

\* parse_xml: the mapping and the attempt that produced it, or the
\* ParseError of the third attempt, which nothing catches.
parse_xml(text) ==
    LET response == RemoveFences(text)
        first == fromstring(response)
        second == fromstring(WrapBoth(response))
        third == fromstring(WrapOpen(response))
    IN  IF first.ok THEN [raised |-> FALSE, tier |-> 1, value |-> xml_to_dict(first.root)]
        ELSE IF second.ok THEN [raised |-> FALSE, tier |-> 2, value |-> xml_to_dict(second.root)]
        ELSE IF third.ok THEN [raised |-> FALSE, tier |-> 3, value |-> xml_to_dict(third.root)]
        ELSE [raised |-> TRUE, exc |-> "ParseError"]

\* ------------------------------------------------------------------ int()
\* Digits with single underscores between them, as int() accepts.
RECURSIVE DigitRun(_, _)
DigitRun(cs, afterDigit) ==
    IF cs = <<>> THEN afterDigit
    ELSE IF IsDigit(Head(cs)) THEN DigitRun(Tail(cs), TRUE)
    ELSE IF Head(cs) = "_" THEN afterDigit /\ DigitRun(Tail(cs), FALSE)
    ELSE FALSE

RECURSIVE Decimal(_, _)
Decimal(cs, acc) ==
    IF cs = <<>> THEN acc
    ELSE IF Head(cs) = "_" THEN Decimal(Tail(cs), acc)
    ELSE Decimal(Tail(cs), 10 * acc + DigitVal(Head(cs)))

\* int(value): the integer, or the exception it raises.
int(value) ==
    IF value.ty # "str" THEN [raised |-> TRUE, exc |-> "TypeError"]
    ELSE LET s == StripChars(value.v)
             signed == s # <<>> /\ Head(s) \in {"+", "-"}
             body == IF signed THEN Tail(s) ELSE s
         IN  IF DigitRun(body, FALSE)
             THEN [raised |-> FALSE,
                   value |-> IF signed /\ Head(s) = "-" THEN 0 - Decimal(body, 0)
                             ELSE Decimal(body, 0)]
             ELSE [raised |-> TRUE, exc |-> "ValueError"]

\* result['confidence'] = int(result['confidence']), 0 on KeyError,
\* ValueError or TypeError.
ConfidenceOf(result) ==
    IF "confidence" \notin DOMAIN result THEN 0
    ELSE LET n == int(result["confidence"])
         IN  IF n.raised THEN 0 ELSE n.value

process_verification_response(text) ==
    LET r1 == trim_text(text, "Discuss whether...")
        r2 == replace_tag(r1, "explanation")
        r3 == replace_tag(r2, "confidence")
        result == parse_xml(r3)
    IN  IF result.raised THEN result
        ELSE [raised |-> FALSE, tier |-> result.tier,
              value |-> SetItem(result.value, "confidence", Integer(ConfidenceOf(result.value)))]

process_kb_response(text) ==
    LET r1 == trim_text(text, "# Identify the algorithm...")
        r2 == trim_text(r1, "# Write a useful tutorial...")
        r3 == trim_text(r2, "# Planning to solve this problem:")
        r4 == trim_text(r3, "# Let's think step by step...")
        r5 == replace_tag(r4, "algorithm")
        r6 == replace_tag(r5, "description")
        r7 == replace_tag(r6, "code")
        r8 == replace_tag(r7, "planning")
    IN  parse_xml(r8)

\* ------------------------------------------------------------ parse_code
\* The hints parse_code looks for, in the order of its checks.
HintChain ==
    <<"Python", "Python3", "python", "python3", "C", "c", "C++",
      "c++", "Java", "java", "Node", "node", "Rust", "rust", "PHP",
      "php", "Go", "go", "Ruby", "ruby", "C#", "c#", "csharp">>

\* The characters of a fence hint; a bare fence has none.
HintSpelling ==
    ("" :> <<>>) @@
    ("Python" :> <<"P", "y", "t", "h", "o", "n">>) @@
    ("Python3" :> <<"P", "y", "t", "h", "o", "n", "3">>) @@
    ("python" :> <<"p", "y", "t", "h", "o", "n">>) @@
    ("python3" :> <<"p", "y", "t", "h", "o", "n", "3">>) @@
    ("C" :> <<"C">>) @@
    ("c" :> <<"c">>) @@
    ("C++" :> <<"C", "+", "+">>) @@
    ("c++" :> <<"c", "+", "+">>) @@
    ("Java" :> <<"J", "a", "v", "a">>) @@
    ("java" :> <<"j", "a", "v", "a">>) @@
    ("Node" :> <<"N", "o", "d", "e">>) @@
    ("node" :> <<"n", "o", "d", "e">>) @@
    ("Rust" :> <<"R", "u", "s", "t">>) @@
    ("rust" :> <<"r", "u", "s", "t">>) @@
    ("PHP" :> <<"P", "H", "P">>) @@
    ("php" :> <<"p", "h", "p">>) @@
    ("Go" :> <<"G", "o">>) @@
    ("go" :> <<"g", "o">>) @@
    ("Ruby" :> <<"R", "u", "b", "y">>) @@
    ("ruby" :> <<"r", "u", "b", "y">>) @@
    ("C#" :> <<"C", "#">>) @@
    ("c#" :> <<"c", "#">>) @@
    ("csharp" :> <<"c", "s", "h", "a", "r", "p">>) @@
    ("xml" :> <<"x", "m", "l">>)

\* A response as characters; the three backticks of a fence count as one.
Backticks == "BACKTICKS"

CodeChars(response) ==
    Flatten([n \in DOMAIN response |->
                IF response[n].k = "fence"
                THEN <<Backticks>> \o HintSpelling[response[n].v]
                ELSE TokenChars(response[n])], 1, Len(response))

IsPrefix(p, cs) == Len(p) <= Len(cs) /\ SubSeq(cs, 1, Len(p)) = p

\* Variant of the first check: every response is taken to hold a fence.
HasFenceAlways(cs) == TRUE

\* three backticks in response
HasFence(cs) == \E n \in DOMAIN cs : cs[n] = Backticks

\* three backticks followed by the hint in response
ContainsHint(cs, hint) ==
    \E n \in DOMAIN cs :
        cs[n] = Backticks /\ IsPrefix(hint, SubSeq(cs, n + 1, Len(cs)))

\* The hint of code_pattern after the chain of checks: every check that
\* succeeds overwrites the pattern, so the last one in the chain wins, and
\* the pattern keeps no hint when none succeeds.
PatternHint(cs) ==
    LET hits == {n \in DOMAIN HintChain : ContainsHint(cs, HintSpelling[HintChain[n]])}
    IN  IF hits = {} THEN <<>>
        ELSE HintSpelling[HintChain[CHOOSE n \in hits : \A m \in hits : m <= n]]

\* The first position from position from on where a fence with the hint opens, 0 if none.
NextOpening(cs, hint, from) ==
    LET at == {n \in from..Len(cs) :
                  cs[n] = Backticks /\ IsPrefix(hint, SubSeq(cs, n + 1, Len(cs)))}
    IN  IF at = {} THEN 0 ELSE CHOOSE n \in at : \A m \in at : n <= m

\* The first fence from position from on, 0 if none.
NextFence(cs, from) ==
    LET at == {n \in from..Len(cs) : cs[n] = Backticks}
    IN  IF at = {} THEN 0 ELSE CHOOSE n \in at : \A m \in at : n <= m

\* re.findall(code_pattern, response, re.DOTALL): the non-overlapping
\* matches from left to right, each as the text its outer group captured; a
\* match runs from an opening to the first fence after it.
RECURSIVE FindAll(_, _, _, _)
FindAll(cs, hint, from, found) ==
    LET opening == NextOpening(cs, hint, from)
        start == opening + 1 + Len(hint)
        closing == NextFence(cs, start)
    IN  IF Len(found) < 0 \/ opening = 0 \/ closing = 0 THEN found
        ELSE FindAll(cs, hint, closing + 1,
                     Append(found, SubSeq(cs, start, closing - 1)))

\* What the inner group (.|\n) of a match captured: the last character the
\* outer group matched, the empty string when it matched nothing.
InnerGroup(outer) == IF outer = <<>> THEN <<>> ELSE <<outer[Len(outer)]>>

\* "\n".join(code_blocks[-1]): findall returns a tuple of both groups for
\* each match.
JoinGroups(outer) == outer \o <<"\n">> \o InnerGroup(outer)

\* parse_code: the extracted text, or the IndexError of code_blocks[-1] on
\* an empty list of matches.
parse_code(response) ==
    LET cs == CodeChars(response)
        code_blocks == FindAll(cs, PatternHint(cs), 1, <<>>)
    IN  IF ~HasFence(cs) THEN [raised |-> FALSE, value |-> cs]
        ELSE IF code_blocks = <<>> THEN [raised |-> TRUE, exc |-> "IndexError"]
        ELSE [raised |-> FALSE, value |-> JoinGroups(code_blocks[Len(code_blocks)])]


\* ------------------------------------------------------- model responses
Leaf(tag, chars) == <<Open(tag), Text(chars), Close(tag)>>

\* One <problem> group of the retrieval response, for exemplar number e.
ProblemGroup(e) ==
    <<Open("problem")>> \o Leaf("description", <<"d", Digits[e + 1]>>)
        \o Leaf("code", <<"c", Digits[e + 1]>>)
        \o Leaf("planning", <<"p", Digits[e + 1]>>) \o <<Close("problem")>>

RECURSIVE ProblemGroups(_, _)
ProblemGroups(from, to) ==
    IF from > to THEN <<>> ELSE ProblemGroup(from) \o ProblemGroups(from + 1, to)

\* A retrieval response with k problem groups and the algorithm child;
\* opened / closed say whether the root's opening / closing tag is there.
KbResponse(k, opened, closed, tutorial) ==
    (IF opened THEN <<Open("root")>> ELSE <<>>)
        \o ProblemGroups(1, k)
        \o (IF tutorial THEN Leaf("algorithm", <<"a">>) ELSE <<>>)
        \o (IF closed THEN <<Close("root")>> ELSE <<>>)

KbResponses ==
    {KbResponse(k, o, c, a) : k \in 0..MaxK, o \in BOOLEAN, c \in BOOLEAN, a \in BOOLEAN}

\* Verification responses in the format the prompt asks for, with the given
\* text in the confidence field.
VerResponse(chars) ==
    <<Fence(""), Open("root")>> \o Leaf("explanation", <<"e">>)
        \o Leaf("confidence", chars) \o <<Close("root"), Fence("")>>

ConfidenceTexts == {<<"8", "0">>, <<"1", "5", "0">>, <<"-", "5">>, <<"a", "b", "c">>}

\* ... and two that do not follow it: no confidence field, and a response
\* cut off inside the confidence field.
VerNoConfidence == <<Open("root")>> \o Leaf("explanation", <<"e">>) \o <<Close("root")>>
VerTruncated == <<Open("root")>> \o Leaf("explanation", <<"e">>) \o <<Open("confidence"), Text(<<"8", "0">>)>>

VerResponses ==
    {VerResponse(cs) : cs \in ConfidenceTexts} \cup {VerNoConfidence, VerTruncated}

\* item.get('api_calls') before the run: absent, or a count left by an
\* earlier run on the same item.
\* The responses to a code generation or repair prompt: bare code, code in a
\* closed python block, and code after a fence that is never closed.
CodeResponses ==
    {<<Text(<<"a">>)>>,
     <<Fence("python"), Text(<<"a">>), Fence("")>>,
     <<Fence("python"), Text(<<"a">>)>>}

\* The token counts gpt_chat reports for a call: they depend on the prompt,
\* and differ between the prompt and the completion.
Usage ==
    [retrieval |-> [pr_tok |-> 5, com_tok |-> 7],
     planning |-> [pr_tok |-> 4, com_tok |-> 3],
     verification |-> [pr_tok |-> 3, com_tok |-> 1],
     generation |-> [pr_tok |-> 6, com_tok |-> 2],
     repair |-> [pr_tok |-> 8, com_tok |-> 4]]

ItemStarts == {[has_api_calls |-> FALSE, api_calls |-> 0], [has_api_calls |-> TRUE, api_calls |-> 2]}

\* ------------------------------------------------------------------ state
VARIABLES
    pc,          \* position in run_single_pass
    t,           \* self.t
    item,        \* the item's api_calls entry
    kb_text,     \* the retrieval response as the model returned it
    examples,    \* the values the planning loop iterates over
    example_no,  \* enumerate(..., start=1) of the planning loop
    planning,    \* the plan awaiting verification
    plannings,   \* list of (planning, confidence)
    accumulated, \* plannings as appended, before the sort
    rank,        \* position of the code loop in plannings
    code,        \* run_single_pass's code
    tcode,       \* _try_improve_code's code
    i,           \* _try_improve_code's loop index
    ret,         \* the value returned by run_single_pass
    exc,         \* the exception that ended the run
    calls,       \* number of calls made, by kind
    plan_calls,  \* per position in plannings: calls made for that plan
    last_eval,   \* the code and outcome of the latest evaluation
    last_repair, \* the code returned by the latest repair call
    item0,       \* the item's api_calls entry when run_single_pass was entered
    tok,         \* pr_tok, com_tok of run_single_pass
    tok_1,       \* pr_tok_1, com_tok_1 of run_single_pass
    total_tok,   \* total_pr_tok, total_com_tok of _try_improve_code
    ret_tok,     \* the token totals run_single_pass returned
    spent,       \* the token counts of all calls of gpt_chat, summed
    stage,       \* position of the parsing harness
    text,        \* input of the parsing harness
    parsed       \* output of the parsing harness

vars == <<pc, t, item, kb_text, examples, example_no, planning, plannings, accumulated,
          rank, code, tcode, i, ret, exc, calls, plan_calls, last_eval, last_repair,
          item0, tok, tok_1, total_tok, ret_tok, spent, stage, text, parsed>>

run_vars == <<pc, t, item, kb_text, examples, example_no, planning, plannings, accumulated,
              rank, code, tcode, i, ret, exc, calls, plan_calls, last_eval, last_repair,
              item0, tok, tok_1, total_tok, ret_tok, spent>>

tok_vars == <<tok, tok_1, total_tok, ret_tok>>

parse_vars == <<stage, text, parsed>>

NoCode == [plan |-> 0, attempt |-> 0]
NoPlan == [no |-> 0, description |-> <<>>, planning |-> <<>>]
NoCalls == [retrieval |-> 0, planning |-> 0, verification |-> 0,
            generation |-> 0, repair |-> 0, evaluation |-> 0]
NoPlanCalls == [generation |-> 0, repair |-> 0, evaluation |-> 0, passed |-> FALSE]
NoEval == [done |-> FALSE, code |-> NoCode, passed |-> FALSE]
NoTokens == [pr_tok |-> 0, com_tok |-> 0]

RunIdle ==
    /\ t = 0
    /\ item = [has_api_calls |-> FALSE, api_calls |-> 0]
    /\ kb_text = <<>>
    /\ examples = <<>>
    /\ example_no = 0
    /\ planning = NoPlan
    /\ plannings = <<>>
    /\ accumulated = <<>>
    /\ rank = 0
    /\ code = NoCode
    /\ tcode = NoCode
    /\ i = 0
    /\ ret = NoCode
    /\ exc = ""
    /\ calls = NoCalls
    /\ plan_calls = <<>>
    /\ last_eval = NoEval
    /\ last_repair = NoCode
    /\ item0 = item
    /\ tok = NoTokens
    /\ tok_1 = NoTokens
    /\ total_tok = NoTokens
    /\ ret_tok = NoTokens
    /\ spent = NoTokens

ParseIdle ==
    /\ stage = "off"
    /\ text = <<>>
    /\ parsed = [raised |-> FALSE]

\* The state when run_single_pass is entered.
Init ==
    /\ pc = "start"
    /\ t \in 0..MaxT
    /\ item \in ItemStarts
    /\ kb_text = <<>>
    /\ examples = <<>>
    /\ example_no = 0
    /\ planning = NoPlan
    /\ plannings = <<>>
    /\ accumulated = <<>>
    /\ rank = 0
    /\ code = NoCode
    /\ tcode = NoCode
    /\ i = 0
    /\ ret = NoCode
    /\ exc = ""
    /\ calls = NoCalls
    /\ plan_calls = <<>>
    /\ last_eval = NoEval
    /\ last_repair = NoCode
    /\ item0 = item
    /\ tok = NoTokens
    /\ tok_1 = NoTokens
    /\ total_tok = NoTokens
    /\ ret_tok = NoTokens
    /\ spent = NoTokens
    /\ ParseIdle

\* ------------------------------------------------------------ run helpers
RECURSIVE SetToSeq(_)
SetToSeq(S) ==
    IF S = {} THEN <<>>
    ELSE LET x == CHOOSE y \in S : TRUE IN <<x>> \o SetToSeq(S \ {x})

\* What `for ... in response["problem"]` iterates over: the elements of a
\* list, the keys of a dict, the characters of a str.  The keys are taken in
\* an arbitrary order: the loop body raises on the first one, whichever it is.
Iterate(value) ==
    CASE value.ty = "list" -> value.v
      [] value.ty = "dict" -> [n \in 1..Cardinality(DOMAIN value.v) |->
                                  Str(<<SetToSeq(DOMAIN value.v)[n]>>)]
      [] value.ty = "str" -> [n \in 1..Len(value.v) |-> Str(<<value.v[n]>>)]
      [] OTHER -> <<>>

\* Variant of the first increment: the counter starts again at 1.
GetThenIncrementFromZero(it) == [has_api_calls |-> TRUE, api_calls |-> 1]

\* item['api_calls'] = item.get('api_calls', 0) + 1
GetThenIncrement(it) ==
    [has_api_calls |-> TRUE, api_calls |-> (IF it.has_api_calls THEN it.api_calls ELSE 0) + 1]

\* item['api_calls'] += 1
Increment(it) == [it EXCEPT !.api_calls = @ + 1]

\* total_pr_tok += pr_tok; total_com_tok += com_tok
Accumulate(total, usage) ==
    [pr_tok |-> total.pr_tok + usage.pr_tok, com_tok |-> total.com_tok + usage.com_tok]

\* Variant of the update of the totals: the first call's counts are left out.
AddTokensWithoutFirst(total, first, second) == Accumulate(total, second)

\* pr_tok += pr_tok_1 + pr_tok_2; com_tok += com_tok_1 + com_tok_2
AddTokens(total, first, second) ==
    [pr_tok |-> total.pr_tok + (first.pr_tok + second.pr_tok),
     com_tok |-> total.com_tok + (first.com_tok + second.com_tok)]

\* Variants of the loop bound: one iteration too many, one too few.
RangeHasNextOneMore(n, tt) == n <= tt + 1
RangeHasNextOneLess(n, tt) == n < tt

\* for i in range(1, self.t + 1): whether the loop body runs for index n.
RangeHasNext(n, tt) == n <= tt

\* Variant of the insertion point: an entry goes before the entries of equal
\* confidence, as an ascending sort followed by a reversal would place it.
RECURSIVE InsertPositionBeforeEqual(_, _, _)
InsertPositionBeforeEqual(sorted, x, n) ==
    IF n > Len(sorted) THEN n
    ELSE IF sorted[n].confidence > x.confidence THEN InsertPositionBeforeEqual(sorted, x, n + 1)
    ELSE n

\* list.sort(key=lambda x: x[1], reverse=True) is stable: an entry goes
\* after every entry whose confidence is at least its own.
RECURSIVE InsertPosition(_, _, _)
InsertPosition(sorted, x, n) ==
    IF n > Len(sorted) THEN n
    ELSE IF sorted[n].confidence >= x.confidence THEN InsertPosition(sorted, x, n + 1)
    ELSE n

Insert(sorted, x) ==
    LET n == InsertPosition(sorted, x, 1)
    IN  SubSeq(sorted, 1, n - 1) \o <<x>> \o SubSeq(sorted, n, Len(sorted))

RECURSIVE SortInto(_, _)
SortInto(sorted, rest) ==
    IF rest = <<>> THEN sorted ELSE SortInto(Insert(sorted, Head(rest)), Tail(rest))

\* Variant of the sort without reverse=True: ascending confidence.
SortPlanningsAscending(ps) ==
    LET d == SortInto(<<>>, ps) IN [n \in 1..Len(d) |-> d[Len(d) + 1 - n]]

SortPlannings(ps) == SortInto(<<>>, ps)

\* The plan the model returns for a planning prompt built from an exemplar.
Plan(no, example) ==
    [no |-> no, description |-> example.v["description"], planning |-> example.v["planning"]]

\* The code the model returns for a plan: attempt 0 is the code generation
\* call, attempt n the n-th repair call.
Code(plan, n) == [plan |-> plan.no, attempt |-> n]

\* The value run_single_pass returns when no plan passed (line 215).
ReturnedWhenNonePassed(run_code, improved) == run_code

Raise(e) ==
    /\ pc' = "raised"
    /\ exc' = e

\* _try_improve_code returned None: the code loop goes on with the next
\* plan, or ends and run_single_pass returns.
PlanExhausted(run_code, improved) ==
    IF rank < Len(plannings)
    THEN /\ rank' = rank + 1
         /\ pc' = "generate"
         /\ ret' = ret
    ELSE /\ rank' = rank
         /\ pc' = "done"
         /\ ret' = ReturnedWhenNonePassed(run_code, improved)

\* Lines 208-215: the totals after _try_improve_code returned with its own
\* totals, and the totals run_single_pass returns if it returns here.
AfterTryImprove(first, second, returns) ==
    /\ tok' = AddTokens(tok, first, second)
    /\ ret_tok' = IF returns THEN AddTokens(tok, first, second) ELSE ret_tok

\* ---------------------------------------------------------------- actions
\* Lines 169-178: the retrieval call, its parsing and the entry of the
\* planning loop.
GetKbAndExemplars ==
    /\ pc = "start"
    /\ \E response \in KbResponses :
        LET usage == Usage.retrieval
            r == process_kb_response(response)
            problem == r.value["problem"]
        IN  /\ kb_text' = response
            /\ item' = GetThenIncrement(item)
            /\ calls' = [calls EXCEPT !.retrieval = @ + 1]
            /\ tok' = usage
            /\ spent' = Accumulate(spent, usage)
            /\ IF r.raised
               THEN Raise(r.exc) /\ UNCHANGED <<examples, example_no>>
               ELSE IF "algorithm" \notin DOMAIN r.value \/ "problem" \notin DOMAIN r.value
               THEN Raise("KeyError") /\ UNCHANGED <<examples, example_no>>
               ELSE IF problem.ty = "none"
               THEN Raise("TypeError") /\ UNCHANGED <<examples, example_no>>
               ELSE IF Iterate(problem) = <<>>
               THEN Raise("UnboundLocalError") /\ UNCHANGED <<examples, example_no>>
               ELSE /\ examples' = Iterate(problem)
                    /\ example_no' = 1
                    /\ pc' = "planning"
                    /\ exc' = exc
    /\ UNCHANGED <<t, planning, plannings, accumulated, rank, code, tcode, i, ret,
                   plan_calls, last_eval, last_repair, item0, tok_1, total_tok, ret_tok,
                   parse_vars>>

\* Lines 180-186: the planning call for the current example.
GetPlanning ==
    /\ pc = "planning"
    /\ LET example == examples[example_no]
       IN  IF example.ty # "dict"
           THEN Raise("TypeError") /\ UNCHANGED <<planning, item, calls, tok_1, spent>>
           ELSE IF {"description", "planning"} \ DOMAIN example.v # {}
           THEN Raise("KeyError") /\ UNCHANGED <<planning, item, calls, tok_1, spent>>
           ELSE LET usage == Usage.planning IN
                /\ planning' = Plan(example_no, example)
                /\ item' = Increment(item)
                /\ calls' = [calls EXCEPT !.planning = @ + 1]
                /\ tok_1' = usage
                /\ spent' = Accumulate(spent, usage)
                /\ pc' = "verify"
                /\ exc' = exc
    /\ UNCHANGED <<t, kb_text, examples, example_no, plannings, accumulated, rank, code,
                   tcode, i, ret, plan_calls, last_eval, last_repair, item0, tok,
                   total_tok, ret_tok, parse_vars>>

\* Lines 188-195: the verification call, its parsing, the append, and after
\* the last example the sort.
VerifyPlanning ==
    /\ pc = "verify"
    /\ \E response \in VerResponses :
        LET usage == Usage.verification
            r == process_verification_response(response)
            appended == Append(plannings,
                            [planning |-> planning, confidence |-> r.value["confidence"].v])
        IN  /\ item' = Increment(item)
            /\ calls' = [calls EXCEPT !.verification = @ + 1]
            /\ spent' = Accumulate(spent, usage)
            /\ IF r.raised
               THEN /\ Raise(r.exc)
                    /\ UNCHANGED <<example_no, plannings, accumulated, rank, plan_calls, tok>>
               ELSE IF example_no < Len(examples)
               THEN /\ plannings' = appended
                    /\ accumulated' = appended
                    /\ tok' = AddTokens(tok, tok_1, usage)
                    /\ example_no' = example_no + 1
                    /\ pc' = "planning"
                    /\ UNCHANGED <<exc, rank, plan_calls>>
               ELSE /\ plannings' = SortPlannings(appended)
                    /\ accumulated' = appended
                    /\ tok' = AddTokens(tok, tok_1, usage)
                    /\ rank' = 1
                    /\ plan_calls' = [n \in 1..Len(appended) |-> NoPlanCalls]
                    /\ pc' = "generate"
                    /\ UNCHANGED <<exc, example_no>>
    /\ UNCHANGED <<t, kb_text, examples, planning, code, tcode, i, ret,
                   last_eval, last_repair, item0, tok_1, total_tok, ret_tok, parse_vars>>

\* Lines 199-206, 284-296 and 358-362: the code generation call for the plan
\* at rank, parse_code on its response, and the entry of _try_improve_code.
\* The code is recorded by the call that produced it.
GenerateCode ==
    /\ pc = "generate"
    /\ \E response \in CodeResponses :
        LET usage == Usage.generation
            generated == Code(plannings[rank].planning, 0)
            r == parse_code(response)
        IN  /\ item' = Increment(item)
            /\ calls' = [calls EXCEPT !.generation = @ + 1]
            /\ plan_calls' = [plan_calls EXCEPT ![rank].generation = @ + 1]
            /\ spent' = Accumulate(spent, usage)
            /\ IF r.raised
               THEN /\ Raise(r.exc)
                    /\ UNCHANGED <<code, tcode, i, rank, ret, tok_vars>>
               ELSE /\ code' = generated
                    /\ tcode' = generated
                    /\ i' = 1
                    /\ tok_1' = usage
                    /\ total_tok' = NoTokens
                    /\ exc' = exc
                    /\ IF RangeHasNext(1, t)
                       THEN pc' = "evaluate" /\ UNCHANGED <<rank, ret, tok, ret_tok>>
                       ELSE /\ PlanExhausted(generated, generated)
                            /\ AfterTryImprove(usage, NoTokens, rank >= Len(plannings))
    /\ UNCHANGED <<t, kb_text, examples, example_no, planning, plannings, accumulated,
                   last_eval, last_repair, item0, parse_vars>>

\* Lines 363-370 and 211-212: one evaluation; on pass the evaluated code is
\* returned by _try_improve_code and by run_single_pass.
Evaluate ==
    /\ pc = "evaluate"
    /\ \E passed \in BOOLEAN :
        /\ last_eval' = [done |-> TRUE, code |-> tcode, passed |-> passed]
        /\ calls' = [calls EXCEPT !.evaluation = @ + 1]
        /\ plan_calls' = [plan_calls EXCEPT ![rank].evaluation = @ + 1,
                                            ![rank].passed = passed]
        /\ IF passed
           THEN pc' = "done" /\ ret' = tcode /\ AfterTryImprove(tok_1, total_tok, TRUE)
           ELSE pc' = "improve" /\ ret' = ret /\ UNCHANGED <<tok, ret_tok>>
    /\ UNCHANGED <<t, item, kb_text, examples, example_no, planning, plannings, accumulated,
                   rank, code, tcode, i, exc, last_repair, item0, tok_1, total_tok, spent,
                   parse_vars>>

\* Lines 373-385, 298-307 and 208-215: one repair call, parse_code on its
\* response, the loop's next index, and when the loop ends the None that
\* sends the code loop on.
ImproveCode ==
    /\ pc = "improve"
    /\ \E response \in CodeResponses :
        LET usage == Usage.repair
            improved == Code(plannings[rank].planning, i)
            r == parse_code(response)
        IN  /\ item' = Increment(item)
            /\ calls' = [calls EXCEPT !.repair = @ + 1]
            /\ plan_calls' = [plan_calls EXCEPT ![rank].repair = @ + 1]
            /\ spent' = Accumulate(spent, usage)
            /\ IF r.raised
               THEN /\ Raise(r.exc)
                    /\ UNCHANGED <<tcode, last_repair, i, rank, ret, tok_vars>>
               ELSE /\ tcode' = improved
                    /\ last_repair' = improved
                    /\ total_tok' = Accumulate(total_tok, usage)
                    /\ exc' = exc
                    /\ tok_1' = tok_1
                    /\ IF RangeHasNext(i + 1, t)
                       THEN /\ i' = i + 1
                            /\ pc' = "evaluate"
                            /\ UNCHANGED <<rank, ret, tok, ret_tok>>
                       ELSE /\ i' = i
                            /\ PlanExhausted(code, improved)
                            /\ AfterTryImprove(tok_1, Accumulate(total_tok, usage),
                                               rank >= Len(plannings))
    /\ UNCHANGED <<t, kb_text, examples, example_no, planning, plannings, accumulated,
                   code, last_eval, item0, parse_vars>>

Next ==
    \/ GetKbAndExemplars
    \/ GetPlanning
    \/ VerifyPlanning
    \/ GenerateCode
    \/ Evaluate
    \/ ImproveCode

Spec == Init /\ [][Next]_vars

\* -------------------------------------------------------- parsing harness
\* The parsing helpers applied to bounded inputs: every response of at most
\* MaxLen tokens over VerAlphabet for _process_verification_response, the
\* retrieval responses for _process_kb_response, every response of at most
\* MaxLen tokens over CodeAlphabet for parse_code, and the documents of at
\* most MaxK children from XmlKids for parse_xml.
VerAlphabet ==
    {Open("root"), Close("root"), Open("confidence"), Close("confidence"),
     Text(<<"8", "0">>), Text(<<"x">>)}

RECURSIVE TokenSeqs(_, _)
TokenSeqs(alphabet, n) ==
    IF n = 0 THEN {<<>>}
    ELSE LET shorter == TokenSeqs(alphabet, n - 1)
         IN  shorter \cup {Append(s, a) : s \in {x \in shorter : Len(x) = n - 1}, a \in alphabet}

VerTexts == TokenSeqs(VerAlphabet, MaxLen) \cup VerResponses

\* The responses parse_code is applied to: every text of at most MaxLen
\* tokens over bare, python and java fences and two pieces of plain text.
CodeAlphabet ==
    {Fence(""), Fence("python"), Fence("java"), Text(<<"a">>), Text(<<"b", "\n">>)}

CodeTexts == TokenSeqs(CodeAlphabet, MaxLen)

\* The children a document for parse_xml is built from: three leaves, two
\* of them with the same tag, and two elements with a child of their own
\* and the same tag.
XmlKids ==
    <<Leaf("description", <<"1">>),
      Leaf("description", <<"2">>),
      Leaf("planning", <<"3">>),
      <<Open("problem")>> \o Leaf("code", <<"4">>) \o <<Close("problem")>>,
      <<Open("problem")>> \o Leaf("code", <<"5">>) \o <<Close("problem")>>>>

KidSeqs == UNION {[1..n -> DOMAIN XmlKids] : n \in 0..MaxK}

XmlText(kids) ==
    <<Open("root")>> \o Flatten([n \in DOMAIN kids |-> XmlKids[kids[n]]], 1, Len(kids))
        \o <<Close("root")>>

XmlTexts == {XmlText(kids) : kids \in KidSeqs}

InitParse ==
    /\ pc = "off"
    /\ RunIdle
    /\ parsed = [raised |-> FALSE]
    /\ \/ stage = "verification" /\ text \in VerTexts
       \/ stage = "kb" /\ text \in KbResponses
       \/ stage = "code" /\ text \in CodeTexts
       \/ stage = "xml" /\ text \in XmlTexts

ProcessVerificationResponse ==
    /\ stage = "verification"
    /\ parsed' = process_verification_response(text)
    /\ stage' = "verified"
    /\ UNCHANGED <<text, run_vars>>

ProcessKbResponse ==
    /\ stage = "kb"
    /\ parsed' = process_kb_response(text)
    /\ stage' = "retrieved"
    /\ UNCHANGED <<text, run_vars>>

ParseCode ==
    /\ stage = "code"
    /\ parsed' = parse_code(text)
    /\ stage' = "coded"
    /\ UNCHANGED <<text, run_vars>>

ParseXml ==
    /\ stage = "xml"
    /\ parsed' = parse_xml(text)
    /\ stage' = "parsed"
    /\ UNCHANGED <<text, run_vars>>

NextParse ==
    \/ ProcessVerificationResponse
    \/ ProcessKbResponse
    \/ ParseCode
    \/ ParseXml

SpecParse == InitParse /\ [][NextParse]_vars

\* ------------------------------------------------------------- properties
Ranked == pc \in {"generate", "evaluate", "improve", "done"}

Terminal == pc \in {"done", "raised"}

\* The position in plannings of the plan the latest code generation call
\* was made for.
Generated == IF pc = "generate" THEN rank - 1 ELSE rank

\* The plan at position r has been given up: its repair loop ended without
\* a passing evaluation.
GivenUp(r) == r < rank \/ (r = rank /\ pc = "done" /\ ~plan_calls[r].passed)

NonePassed == pc = "done" /\ \A r \in DOMAIN plan_calls : ~plan_calls[r].passed

ModelCalls ==
    calls.retrieval + calls.planning + calls.verification + calls.generation + calls.repair

\* C1: for each plan at most t repair calls are made, whatever the
\* evaluation results; and once an evaluation passes, the run is over with
\* that evaluated code as its result, every failed evaluation before it
\* having been followed by exactly one repair call.
C1_RepairBound ==
    \A r \in DOMAIN plan_calls :
        /\ plan_calls[r].repair <= t
        /\ plan_calls[r].passed =>
            /\ pc = "done"
            /\ rank = r
            /\ last_eval.passed
            /\ ret = last_eval.code
            /\ ret = tcode
            /\ plan_calls[r].repair = plan_calls[r].evaluation - 1

\* A plan passes after a failed evaluation and one repair, with budget left.
C1_Witness ==
    /\ pc = "done"
    /\ plan_calls[rank].passed
    /\ plan_calls[rank].repair >= 1
    /\ plan_calls[rank].repair < t

\* C2: plans are tried in ranked order (non-increasing confidence): a plan
\* gets its calls only after every plan ranked above it was given up, the
\* result of a passing run is the code the passing evaluation ran on, and
\* no call has been made for any plan ranked below the passing one.
C2_FirstPassingInRankedOrder ==
    Ranked =>
        /\ \A a, b \in DOMAIN plannings :
              a < b => plannings[a].confidence >= plannings[b].confidence
        /\ \A r \in DOMAIN plan_calls :
              /\ r < rank => plan_calls[r].generation = 1 /\ ~plan_calls[r].passed
              /\ r > rank => plan_calls[r] = NoPlanCalls
        /\ code # NoCode => code.plan = plannings[Generated].planning.no
        /\ (pc = "done" /\ last_eval.passed) =>
              /\ ret = last_eval.code
              /\ ret.plan = plannings[rank].planning.no

\* The second of three plans passes; ranking changed the retrieval order.
C2_Witness ==
    /\ pc = "done"
    /\ last_eval.passed
    /\ rank = 2
    /\ Len(plannings) = 3
    /\ plannings # accumulated

\* C3: when every evaluation of every plan fails (t >= 1), the result is
\* the output of the final repair call for the last ranked plan.
C3_ReturnsLastRepaired ==
    (NonePassed /\ t >= 1) =>
        /\ ret = last_repair
        /\ ret.attempt = t
        /\ ret.plan = plannings[Len(plannings)].planning.no

\* C4: a plan that is given up has had exactly t repair calls and exactly t
\* evaluation calls; a run in which no plan passed made P * t repair calls.
C4_ExactlyTRepairs ==
    /\ \A r \in DOMAIN plan_calls :
          GivenUp(r) => plan_calls[r].repair = t /\ plan_calls[r].evaluation = t
    /\ NonePassed => calls.repair = Len(plannings) * t

\* Two or more plans, each given up after t >= 1 failed evaluations.
C4_Witness ==
    /\ NonePassed
    /\ t >= 1
    /\ Len(plannings) >= 2
    /\ calls.repair = Len(plannings) * t

\* A retrieval response in the requested format with k problem groups.
WellFormedKb(k) == KbResponse(k, TRUE, TRUE, TRUE)

VerificationRaised == pc = "raised" /\ calls.verification > 0 /\ exc = "ParseError"

\* C5: with a retrieval response of K >= 1 exemplars, verification
\* responses that parse, t >= 1 and no failed evaluation, the run ends by
\* returning the first plan's initial code after 2K+2 model calls, one
\* evaluation and no repair call.
C5_FirstPassCallCount ==
    \A k \in 1..MaxK :
        (/\ kb_text = WellFormedKb(k)
         /\ Terminal
         /\ ~VerificationRaised
         /\ t >= 1
         /\ calls.repair = 0) =>
            /\ pc = "done"
            /\ ModelCalls = 2 * k + 2
            /\ calls.evaluation = 1
            /\ ret = Code(plannings[1].planning, 0)

\* C6: the ranked list is a permutation of the accumulated list, its
\* confidences are non-increasing, entries of equal confidence keep their
\* retrieval order, and code synthesis receives the plans in this order.
C6_StableRanking ==
    Ranked =>
        /\ Len(plannings) = Len(accumulated)
        /\ \A n \in DOMAIN accumulated :
              /\ accumulated[n].planning.no = n
              /\ \E m \in DOMAIN plannings : plannings[m] = accumulated[n]
        /\ \A a, b \in DOMAIN plannings :
              a < b =>
                /\ plannings[a].confidence >= plannings[b].confidence
                /\ plannings[a].confidence = plannings[b].confidence =>
                      plannings[a].planning.no < plannings[b].planning.no
        /\ code # NoCode => code.plan = plannings[Generated].planning.no

\* Code is generated for a list with a tie that the sort had to reorder.
C6_Witness ==
    /\ pc = "evaluate"
    /\ plannings # accumulated
    /\ \E a, b \in DOMAIN plannings :
          a < b /\ plannings[a].confidence = plannings[b].confidence

\* The response holds a confidence field whose text int() accepts.
HasIntegerConfidence(toks) ==
    \E n \in 1..(Len(toks) - 2) :
        /\ toks[n] = Open("confidence")
        /\ toks[n + 1].k = "text"
        /\ ~int(Str(toks[n + 1].v)).raised
        /\ toks[n + 2] = Close("confidence")

\* C7: _process_verification_response never raises, the confidence it
\* returns is an integer, and it is 0 whenever the response has no
\* confidence field holding an integer string.
C7_VerificationNeverRaises ==
    stage = "verified" =>
        /\ ~parsed.raised
        /\ parsed.value["confidence"].ty = "int"
        /\ ~HasIntegerConfidence(text) => parsed.value["confidence"].v = 0

\* C8: every confidence in the plannings list is in 0..100.
C8_ConfidenceInRange ==
    \A n \in DOMAIN plannings : plannings[n].confidence \in 0..100

\* C9: for a retrieval response with exactly one problem group, the
\* planning loop iterates over a one-element sequence holding the exemplar
\* mapping, and the run makes exactly one planning call, from that
\* exemplar's description and planning.
C9_SingleExemplarIsSequence ==
    (kb_text = WellFormedKb(1) /\ pc # "start") =>
        /\ Len(examples) = 1
        /\ examples[1].ty = "dict"
        /\ DOMAIN examples[1].v = {"description", "code", "planning"}
        /\ pc \notin {"planning", "raised"} =>
              /\ calls.planning = 1
              /\ planning = Plan(1, examples[1])

\* A retrieval response with k problem groups and the algorithm child that
\* opens the root tag and never closes it.
UnclosedKb(k) == KbResponse(k, TRUE, FALSE, TRUE)

\* C10: a retrieval response that lacks only the closing root tag is parsed
\* by the second attempt of parse_xml into a mapping with the problem and
\* algorithm keys.
C10_UnclosedRootRecovered ==
    \A k \in 1..MaxK :
        (stage = "retrieved" /\ text = UnclosedKb(k)) =>
            /\ ~parsed.raised
            /\ parsed.tier = 2
            /\ {"problem", "algorithm"} \subseteq DOMAIN parsed.value

\* ---------------------------------------------------------------- C11-C12
\* The positions of the fences of a response, in order.
FencePositions(toks) ==
    SelectSeq([n \in DOMAIN toks |-> n], LAMBDA n : toks[n].k = "fence")

\* A response of closed fenced blocks: its fences pair up as an opening and
\* a bare closing fence, at least `least` times.
ClosedBlocks(toks, least) ==
    LET at == FencePositions(toks)
    IN  /\ Len(at) >= 2 * least
        /\ Len(at) % 2 = 0
        /\ \A n \in DOMAIN at : n % 2 = 0 => toks[at[n]].v = ""

\* The hints of the opening fences.
OpeningHints(toks) ==
    LET at == FencePositions(toks)
    IN  {toks[at[n]].v : n \in {m \in DOMAIN at : m % 2 = 1}}

\* The characters between the last opening fence and its closing fence.
LastBlock(toks) ==
    LET at == FencePositions(toks)
        from == at[Len(at) - 1] + 1
        to == at[Len(at)] - 1
    IN  Flatten([n \in DOMAIN toks |-> toks[n].v], from, to)

\* C11: for a text of two or more closed fenced blocks that all use the same
\* hint, parse_code returns exactly the contents of the last block, nothing
\* added, duplicated or removed.
C11_ReturnsLastBlockExactly ==
    (stage = "coded" /\ ClosedBlocks(text, 2) /\ Cardinality(OpeningHints(text)) = 1)
        => (~parsed.raised /\ parsed.value = LastBlock(text))

\* C12: for a text without any fence marker, parse_code returns the text
\* unchanged.
C12_NoFenceUnchanged ==
    (stage = "coded" /\ FencePositions(text) = <<>>)
        => (~parsed.raised
            /\ parsed.value = Flatten([n \in DOMAIN text |-> text[n].v], 1, Len(text)))

C12_Witness ==
    /\ stage = "coded"
    /\ FencePositions(text) = <<>>
    /\ Len(text) >= 2
    /\ ~parsed.raised
    /\ parsed.value = <<"a", "b", "\n">>

\* -------------------------------------------------------------------- C15
\* The value xml_to_dict is to give a child of XmlKids.
KidTag(kid) == XmlKids[kid][1].v
KidValue(kid) ==
    IF Len(XmlKids[kid]) = 3 THEN Str(XmlKids[kid][2].v)
    ELSE Dict(XmlKids[kid][2].v :> Str(XmlKids[kid][3].v))

\* The values of the children with one tag, in document order.
ValuesOf(kids, tag) ==
    LET at == SelectSeq([n \in DOMAIN kids |-> n], LAMBDA n : KidTag(kids[n]) = tag)
    IN  [n \in DOMAIN at |-> KidValue(kids[at[n]])]

\* C15: when a tag occurs more than once among the children of an element,
\* its entry is the list of the values of all occurrences in document
\* order, for leaf children and for children with children of their own.
C15_RepeatedTagsListed ==
    \A kids \in KidSeqs :
        (stage = "parsed" /\ text = XmlText(kids))
            => \A tag \in {KidTag(kids[n]) : n \in DOMAIN kids} :
                   Len(ValuesOf(kids, tag)) >= 2
                       => (~parsed.raised /\ parsed.value[tag] = List(ValuesOf(kids, tag)))

\* -------------------------------------------------------------------- C17
\* C17: for a text of several closed fenced blocks with different hints,
\* parse_code returns the block that is last in the text (as it returns a
\* block: its contents, or its contents as the two groups joined).
C17_ReturnsLastBlockOfAnyHint ==
    (stage = "coded" /\ ClosedBlocks(text, 2) /\ Cardinality(OpeningHints(text)) >= 2)
        => (~parsed.raised
            /\ parsed.value \in {LastBlock(text), JoinGroups(LastBlock(text))})

\* -------------------------------------------------------------------- C20
\* C20: parse_code never raises on a text with at least one fence marker.
C20_ParseCodeTotal ==
    (stage = "coded" /\ FencePositions(text) # <<>>) => ~parsed.raised

\* -------------------------------------------------------------------- C13
\* The token counts of the calls counted in calls, summed per kind.
SumOfCalls(field) ==
    calls.retrieval * Usage.retrieval[field] + calls.planning * Usage.planning[field]
        + calls.verification * Usage.verification[field]
        + calls.generation * Usage.generation[field] + calls.repair * Usage.repair[field]

\* C13: on every return of run_single_pass, on a passing plan or after all
\* plans failed, the returned prompt and completion totals are the sums of
\* the counts of every model call of the run.
C13_TokenTotals ==
    /\ spent = [pr_tok |-> SumOfCalls("pr_tok"), com_tok |-> SumOfCalls("com_tok")]
    /\ pc = "done" => ret_tok = spent

\* The second plan passes after a repair: the totals cover both loops.
C13_Witness ==
    /\ pc = "done"
    /\ last_eval.passed
    /\ rank = 2
    /\ plan_calls[1].repair >= 1
    /\ plan_calls[2].repair >= 1
    /\ ret_tok = spent

\* -------------------------------------------------------------------- C14
\* C14: when the repair loop of a plan has ended, the latest code produced
\* for the plan, by code generation or by a repair call, has been
\* evaluated; this holds for t = 0 too.
C14_EveryCandidateEvaluated ==
    (pc \in {"generate", "done"} /\ tcode # NoCode)
        => (last_eval.done /\ last_eval.code = tcode)

\* -------------------------------------------------------------------- C16
\* C16: once P >= 1 plans are ranked, the run makes at most P code
\* generation calls, P * t repair calls and P * t evaluation calls, a plan
\* given up is followed by code generation for the next plan, and the run
\* ends by returning, with a plan that passed or with every plan tried.
C16_TerminatesWithinBounds ==
    rank >= 1 =>
        /\ calls.generation <= Len(plannings)
        /\ calls.repair <= Len(plannings) * t
        /\ calls.evaluation <= Len(plannings) * t
        /\ \A r \in DOMAIN plan_calls :
              (r < rank /\ pc # "generate") => plan_calls[r + 1].generation = 1
        /\ Terminal =>
              /\ pc = "done"
              /\ \/ \E r \in DOMAIN plan_calls : plan_calls[r].passed
                 \/ \A r \in DOMAIN plan_calls : plan_calls[r].generation = 1

\* -------------------------------------------------------------------- C18
\* The plan made from exemplar number n of a well-formed retrieval response.
PlanOfExemplar(n) ==
    [no |-> n, description |-> Str(<<"d", Digits[n + 1]>>),
     planning |-> Str(<<"p", Digits[n + 1]>>)]

\* C18: with a retrieval response of K exemplars, after the one retrieval
\* call and before any code generation call each exemplar in retrieval
\* order gets one planning call, followed at once by one verification call
\* of that plan; when the planning stage is over, the list holds one entry
\* per exemplar.
C18_PlanningStageOrder ==
    \A k \in 1..MaxK :
        kb_text = WellFormedKb(k) =>
            /\ calls.retrieval = 1
            /\ pc = "planning" =>
                  /\ calls.planning = example_no - 1
                  /\ calls.verification = example_no - 1
                  /\ calls.generation = 0
            /\ pc = "verify" =>
                  /\ calls.planning = example_no
                  /\ calls.verification = example_no - 1
                  /\ calls.generation = 0
                  /\ planning = PlanOfExemplar(example_no)
            /\ \A n \in DOMAIN accumulated : accumulated[n].planning = PlanOfExemplar(n)
            /\ (Ranked \/ Terminal) =>
                  /\ calls.planning = k
                  /\ calls.verification = k
                  /\ Len(accumulated) = k
                  /\ Len(plannings) = k

\* -------------------------------------------------------------------- C19
\* C19: item['api_calls'] is its value when the run started, 0 if it was
\* absent, plus the number of model calls made so far; evaluation calls
\* and parsing do not change it.
C19_ApiCallsCounted ==
    pc # "off" =>
        /\ item.api_calls = (IF item0.has_api_calls THEN item0.api_calls ELSE 0) + ModelCalls
        /\ item.has_api_calls = (item0.has_api_calls \/ ModelCalls > 0)

\* A run that started with a counter of 2 ends after calls of every kind.
C19_Witness ==
    /\ pc = "done"
    /\ item0.has_api_calls
    /\ item0.api_calls = 2
    /\ calls.repair >= 1
    /\ calls.evaluation >= 2
    /\ item.api_calls = 2 + ModelCalls

====
